---- MODULE Spec2Model ----
(***************************************************************************)
(* A model of src/app.py: the Flask application with the two handlers      *)
(* analyze_handler (/api/analyze) and suggest_handler (/api/suggest), and  *)
(* the module-level startup code that reads GEMINI_API_KEY, creates the    *)
(* Flask app and constructs the ChatGoogleGenerativeAI client.             *)
(*                                                                         *)
(* Texts are sequences of tokens over "a" (any ordinary text), "{", "}",   *)
(* ":" and "k"/"v" (a quoted JSON key / value), which is what the prompt   *)
(* template's placeholder syntax distinguishes.  JSON values are records   *)
(* [t, s] (type tag, text).                                                *)
(***************************************************************************)
EXTENDS Integers, Sequences, FiniteSets, TLC

\* Number of request slots (requests in flight or finished in one run).
MaxReq == 2

Requests == 1..MaxReq

\* ------------------------------------------------------------------ values

JNull == [t |-> "null", s |-> <<>>]
JStr(x) == [t |-> "str", s |-> x]
JNum(d) == [t |-> "num", s |-> <<d>>]

\* Request texts: empty, plain, one with a placeholder, one with a single
\* closing brace, one with doubled (escaped) braces.
Texts ==
  { <<>>, <<"a">>, <<"{", "a", "}">>, <<"a", "}">>, <<"{", "{", "a", "}", "}">> }

\* Values a field of the request's JSON object can carry.
FieldValues == { JStr(x) : x \in Texts } \cup { JNum("0"), JNum("5") }

\* Request bodies: not JSON at all, the JSON values null and [], the empty
\* object, and objects with one of the two fields.
Bodies ==
  { [kind |-> k, key |-> "none", val |-> JNull] : k \in {"notjson", "null", "list", "object"} }
  \cup { [kind |-> "object", key |-> f, val |-> v] :
           f \in {"task_text", "partial_task"}, v \in FieldValues }

Endpoints == {"analyze", "suggest"}

\* Values of GEMINI_API_KEY after load_dotenv(): unset, set empty, set.
EnvKeys == { JNull, JStr(<<>>), JStr(<<"a">>) }

\* Python truthiness of a JSON value (`not x` is its negation).
Truthy(x) ==
  CASE x.t = "null" -> FALSE
    [] x.t = "str" -> x.s # <<>>
    [] x.t = "num" -> x.s # <<"0">>
    [] OTHER -> TRUE

\* ------------------------------------------------- prompt template syntax

IsBrace(c) == c \in {"{", "}"}

\* Position of the "}" closing the field opened before position j (depth
\* counts the braces still open), or 0 when the text ends first.
RECURSIVE MatchClose(_, _, _)
MatchClose(s, j, depth) ==
  IF j > Len(s) THEN 0
  ELSE IF s[j] = "{" THEN MatchClose(s, j + 1, depth + 1)
  ELSE IF s[j] = "}" THEN (IF depth = 1 THEN j ELSE MatchClose(s, j + 1, depth - 1))
  ELSE MatchClose(s, j + 1, depth)

\* The field name of a replacement field's text: what precedes its first
\* ":"; a "{" inside the name is a syntax error (<<"{">> here).
RECURSIVE FieldName(_, _)
FieldName(f, acc) ==
  IF f = <<>> THEN acc
  ELSE IF Head(f) = ":" THEN acc
  ELSE IF Head(f) = "{" THEN <<"{">>
  ELSE FieldName(Tail(f), Append(acc, Head(f)))

\* string.Formatter().parse as the f-string template format uses it: the
\* names of the replacement fields of s from position i on; doubled braces
\* are literals; a single "}" or an unclosed "{" is a ValueError.
RECURSIVE ScanTemplate(_, _, _)
ScanTemplate(s, i, names) ==
  IF i > Len(s) THEN [err |-> FALSE, names |-> names]
  ELSE IF ~IsBrace(s[i]) THEN ScanTemplate(s, i + 1, names)
  ELSE IF i = Len(s) THEN [err |-> TRUE, names |-> names]
  ELSE IF s[i + 1] = s[i] THEN ScanTemplate(s, i + 2, names)
  ELSE IF s[i] = "}" THEN [err |-> TRUE, names |-> names]
  ELSE LET j == MatchClose(s, i + 1, 1) IN
       IF j = 0 THEN [err |-> TRUE, names |-> names]
       ELSE LET n == FieldName(SubSeq(s, i + 1, j - 1), <<>>) IN
            IF n = <<"{">> THEN [err |-> TRUE, names |-> names]
            ELSE ScanTemplate(s, j + 1, names \cup {n})

\* get_template_variables(template, "f-string").
TemplateVariables(s) == ScanTemplate(s, 1, {})

\* JsonOutputParser.get_format_instructions() for a parser that has a
\* pydantic_object: fixed instruction text around json.dumps(schema), and
\* the JSON text of a schema object is {"properties": {...}, ...}: braces,
\* quoted keys, nested objects.  Both handlers paste this text into the
\* system template unescaped (f-string interpolation, lines 79 and 115).
get_format_instructions ==
  <<"a", "{", "k", ":", "{", "k", ":", "v", "}", "}">>

\* get_today_string(): digits and dashes, ordinary text.
get_today_string == <<"a">>

\* The system message template of each handler (lines 75-80, 113-116).
SystemTemplate(ep) ==
  IF ep = "analyze"
    THEN <<"a">> \o get_today_string \o <<"a">> \o get_format_instructions
    ELSE <<"a">> \o get_format_instructions

\* ------------------------------------------------------ provider and parser

\* What llm.invoke can produce: a transport error, or a reply text that is
\* a conforming JSON record, a JSON record with an effort_score outside the
\* enum, one lacking a required field, one with a wrongly typed field, a
\* suggestions list shorter than 5, a truncated JSON text, or no JSON.
ProviderOutcomes ==
  {"transport_error", "conforming", "bad_enum", "missing_field", "wrong_type",
   "short_list", "truncated", "not_json"}

\* JsonOutputParser.parse_result on a reply text: the pydantic_object is
\* used for the format instructions only, so any JSON value is returned as
\* parsed; parse_json_markdown completes a truncated JSON text
\* (parse_partial_json); a text with no JSON raises OutputParserException.
ParseReply(reply) ==
  CASE reply = "not_json" -> [exc |-> "OutputParserException", result |-> ""]
    [] reply = "truncated" -> [exc |-> "", result |-> "partial"]
    [] OTHER -> [exc |-> "", result |-> reply]

\* ------------------------------------------------------------- responses

MissingMsg(ep) == IF ep = "analyze" THEN "Missing task_text" ELSE "Missing partial_task"

GenericMsg(ep) ==
  IF ep = "analyze" THEN "Internal Server Error during AI analysis."
  ELSE "Internal Server Error during suggestion generation."

NoBody == [error |-> "", details |-> "", result |-> ""]
ErrorBody(msg, details) == [error |-> msg, details |-> details, result |-> ""]
ResultBody(res) == [error |-> "", details |-> "", result |-> res]

\* The classes the handlers' code can raise, all subclasses of Exception.
ExceptionClasses ==
  {"BadRequest", "AttributeError", "ValueError", "KeyError",
   "OutputParserException", "TransportError", "ValidationError"}

\* ExceptClause with the catch-all `except Exception` clause left out.
ExceptClause_ValidationOnly(ep, e) ==
  IF ep = "analyze" /\ e = "ValidationError" THEN "validation" ELSE "none"

\* The except clause that catches exception e in the handler of ep:
\* analyze has `except ValidationError` then `except Exception`, suggest
\* has `except Exception` only.
ExceptClause(ep, e) ==
  IF ep = "analyze" /\ e = "ValidationError" THEN "validation"
  ELSE IF e \in ExceptionClasses THEN "generic"
  ELSE "none"

\* ExceptResponse with str(e) passed on in the generic response as well.
ExceptResponse_WithDetails(ep, e) ==
  IF ExceptClause(ep, e) = "validation"
    THEN [status |-> 500, body |-> ErrorBody("AI returned invalid structure.", e)]
    ELSE [status |-> 500, body |-> ErrorBody(GenericMsg(ep), e)]

\* The response the except clause builds (lines 91-96, 125-127).
ExceptResponse(ep, e) ==
  IF ExceptClause(ep, e) = "validation"
    THEN [status |-> 500, body |-> ErrorBody("AI returned invalid structure.", e)]
    ELSE [status |-> 500, body |-> ErrorBody(GenericMsg(ep), "")]

\* The request field each handler reads (lines 65, 104).
FieldOf(ep) == IF ep = "analyze" THEN "task_text" ELSE "partial_task"

\* data.get(key) on a JSON object body.
DictGet(body, key) == IF body.key = key THEN body.val ELSE JNull

\* `if not task_text:` / `if not partial_task:` (lines 68, 106).
FieldMissing(v) == ~Truthy(v)

\* KeyMissing with the check left out.
KeyMissing_Never(k) == FALSE

\* `if not GEMINI_API_KEY:` (line 21).
KeyMissing(k) == ~Truthy(k)

\* ------------------------------------------------------------------ state

VARIABLES
  envKey,          \* GEMINI_API_KEY in the environment after load_dotenv()
  GEMINI_API_KEY,  \* the module global read from it (line 19)
  boot,            \* where module execution stands
  app,             \* the Flask app exists (line 26)
  llm,             \* the provider client (lines 31-35)
  listening,       \* app.run has bound the listener (line 137)
  req              \* the requests, by slot

vars == <<envKey, GEMINI_API_KEY, boot, app, llm, listening, req>>

NoLlm == [constructed |-> FALSE, key |-> JNull, temperature |-> 0]

IdleReq ==
  [pc |-> "Idle", ep |-> "none", body |-> [kind |-> "null", key |-> "none", val |-> JNull],
   field |-> JNull, names |-> {}, exc |-> "", exitFrom |-> "",
   status |-> 0, resp |-> NoBody, calls |-> 0]

Init ==
  /\ envKey \in EnvKeys
  /\ GEMINI_API_KEY = JNull
  /\ boot = "import"
  /\ app = FALSE
  /\ llm = NoLlm
  /\ listening = FALSE
  /\ req = [r \in Requests |-> IdleReq]

\* ---------------------------------------------------------------- startup

\* Lines 18-19: load_dotenv(); GEMINI_API_KEY = os.environ.get(...).
ReadKey ==
  /\ boot = "import"
  /\ GEMINI_API_KEY' = envKey
  /\ boot' = "check"
  /\ UNCHANGED <<envKey, app, llm, listening, req>>

\* Lines 21-23: raise ValueError when the key is missing; the module's
\* execution ends there.
CheckKey ==
  /\ boot = "check"
  /\ boot' = IF KeyMissing(GEMINI_API_KEY) THEN "failed" ELSE "setup"
  /\ UNCHANGED <<envKey, GEMINI_API_KEY, app, llm, listening, req>>

\* Lines 26-28: app = Flask(__name__); CORS(app).
CreateApp ==
  /\ boot = "setup"
  /\ app' = TRUE
  /\ boot' = "client"
  /\ UNCHANGED <<envKey, GEMINI_API_KEY, llm, listening, req>>

\* Lines 31-35: llm = ChatGoogleGenerativeAI(model, temperature=0.0, key).
ConstructLlm ==
  /\ boot = "client"
  /\ llm' = [constructed |-> TRUE, key |-> GEMINI_API_KEY, temperature |-> 0]
  /\ boot' = "loaded"
  /\ UNCHANGED <<envKey, GEMINI_API_KEY, app, listening, req>>

\* Lines 134-137: app.run(debug=True) binds the listener.
Run ==
  /\ boot = "loaded"
  /\ listening' = TRUE
  /\ boot' = "serving"
  /\ UNCHANGED <<envKey, GEMINI_API_KEY, app, llm, req>>

\* --------------------------------------------------------------- handlers

\* The pipeline stage a handler is in at each position of its code.
Stage(pc) ==
  CASE pc \in {"Received", "Fetched"} -> "Received"
    [] OTHER -> pc

\* An exception e raised inside the handler's try block while in `stage`:
\* the matching except clause builds the response; an exception no clause
\* matches leaves the handler.
Raise(rq, e, stage) ==
  IF ExceptClause(rq.ep, e) = "none"
    THEN [rq EXCEPT !.pc = "Escaped", !.exc = e, !.exitFrom = stage]
    ELSE [rq EXCEPT !.pc = "Done", !.exc = e, !.exitFrom = stage,
                    !.status = ExceptResponse(rq.ep, e).status,
                    !.resp = ExceptResponse(rq.ep, e).body]

\* `return jsonify(body), status` from `stage`.
Return(rq, status, body, stage) ==
  [rq EXCEPT !.pc = "Done", !.exitFrom = stage, !.status = status, !.resp = body]

\* A POST to /api/analyze or /api/suggest reaches its handler.  Slots are
\* taken in order (the requests themselves are independent).
Receive(r) ==
  /\ listening
  /\ req[r].pc = "Idle"
  /\ IF r = 1 THEN TRUE ELSE req[r - 1].pc # "Idle"
  /\ \E ep \in Endpoints, b \in Bodies :
       req' = [req EXCEPT ![r] = [IdleReq EXCEPT !.pc = "Received", !.ep = ep, !.body = b]]
  /\ UNCHANGED <<envKey, GEMINI_API_KEY, boot, app, llm, listening>>

\* Lines 64-66, 103-104: data = request.get_json() raises BadRequest on a
\* body that is not JSON; data.get(field) raises AttributeError on None
\* and on a list, which have no .get.
ReadInput(r) ==
  /\ req[r].pc = "Received"
  /\ LET rq == req[r] IN
     req' = [req EXCEPT ![r] =
       IF rq.body.kind = "notjson" THEN Raise(rq, "BadRequest", Stage(rq.pc))
       ELSE IF rq.body.kind # "object" THEN Raise(rq, "AttributeError", Stage(rq.pc))
       ELSE [rq EXCEPT !.pc = "Fetched", !.field = DictGet(rq.body, FieldOf(rq.ep))]]
  /\ UNCHANGED <<envKey, GEMINI_API_KEY, boot, app, llm, listening>>

\* Lines 68-69, 106-107: the 400 for a missing field.
CheckField(r) ==
  /\ req[r].pc = "Fetched"
  /\ LET rq == req[r] IN
     req' = [req EXCEPT ![r] =
       IF FieldMissing(rq.field)
         THEN Return(rq, 400, ErrorBody(MissingMsg(rq.ep), ""), Stage(rq.pc))
         ELSE [rq EXCEPT !.pc = "ValidatedInput"]]
  /\ UNCHANGED <<envKey, GEMINI_API_KEY, boot, app, llm, listening>>

\* The placeholders ChatPromptTemplate.from_messages finds in the system
\* and user templates, or an error: a user value that is no string is an
\* invalid template, malformed braces are a ValueError.
PromptNames(ep, field) ==
  LET sys == TemplateVariables(SystemTemplate(ep))
      usr == IF field.t = "str" THEN TemplateVariables(field.s)
             ELSE [err |-> TRUE, names |-> {}]
  IN [err |-> sys.err \/ usr.err, names |-> sys.names \cup usr.names]

\* Lines 72-82, 110-118: build the parser and the prompt template.
BuildPrompt(r) ==
  /\ req[r].pc = "ValidatedInput"
  /\ LET rq == req[r]
         p == PromptNames(rq.ep, rq.field)
     IN req' = [req EXCEPT ![r] =
          IF p.err THEN Raise(rq, "ValueError", Stage(rq.pc))
          ELSE [rq EXCEPT !.pc = "Prompted", !.names = p.names]]
  /\ UNCHANGED <<envKey, GEMINI_API_KEY, boot, app, llm, listening>>

\* The llm and parser steps of the chain on provider outcome `out`, and
\* `return jsonify(result)` (lines 87-89, 121-123).
AfterProvider(rq, out) ==
  LET called == [rq EXCEPT !.calls = rq.calls + 1] IN
  IF out = "transport_error" THEN Raise(called, "TransportError", "Invoked")
  ELSE IF ParseReply(out).exc # ""
    THEN Raise(called, ParseReply(out).exc, "ValidatedOutput")
  ELSE Return(called, 200, ResultBody(ParseReply(out).result), "ValidatedOutput")

\* The placeholders of the prompt that the input {} of chain.invoke({})
\* leaves without a value.
MissingVariables(names) == names \ {}

\* Lines 84-89, 120-123: chain = prompt | llm | parser; chain.invoke({}).
\* The prompt step raises KeyError when a placeholder has no value; only
\* then come the provider call and the parser.
InvokeChain(r) ==
  /\ req[r].pc = "Prompted"
  /\ IF MissingVariables(req[r].names) # {}
       THEN req' = [req EXCEPT ![r] = Raise(req[r], "KeyError", Stage(req[r].pc))]
       ELSE \E out \in ProviderOutcomes :
              req' = [req EXCEPT ![r] = AfterProvider(req[r], out)]
  /\ UNCHANGED <<envKey, GEMINI_API_KEY, boot, app, llm, listening>>

Next ==
  \/ ReadKey
  \/ CheckKey
  \/ CreateApp
  \/ ConstructLlm
  \/ Run
  \/ \E r \in Requests :
       \/ Receive(r)
       \/ ReadInput(r)
       \/ CheckField(r)
       \/ BuildPrompt(r)
       \/ InvokeChain(r)

Spec == Init /\ [][Next]_vars

\* ----------------------------------------------------------------- claims

Done(r) == req[r].pc = "Done"

\* The request's body carries no value for the handler's field, or carries
\* the empty string.
FieldAbsentOrEmpty(rq) ==
  \/ rq.body.kind # "object"
  \/ rq.body.key # FieldOf(rq.ep)
  \/ rq.body.val = JStr(<<>>)

\* C1: every request whose task_text (for /api/analyze) or partial_task
\* (for /api/suggest) is absent or the empty string is answered with status
\* 400, and the provider is invoked zero times during it.
C1_MissingFieldIs400 ==
  \A r \in Requests :
    Done(r) /\ FieldAbsentOrEmpty(req[r]) =>
      req[r].status = 400 /\ req[r].calls = 0

\* Supporting fact for the claims about provider replies: the system
\* template always carries the unescaped braces of the format instructions,
\* chain.invoke({}) gives them no value, so the chain stops at its prompt
\* step: the provider is never called and no request is answered with 200.
ProviderNeverReached ==
  \A r \in Requests : req[r].calls = 0 /\ req[r].status # 200

C7_FailuresCaught ==
  \A r \in Requests :
    /\ req[r].pc # "Escaped"
    /\ req[r].exc # "" => Done(r) /\ req[r].status = 500
    /\ Done(r) /\ req[r].status # 200 =>
         req[r].status \in {400, 500} /\ req[r].resp.error # ""

\* An unreadable body, a non-object body and a failing chain have each
\* been answered.
C7_Witness ==
  \E r1, r2 \in Requests :
    /\ Done(r1) /\ req[r1].exc \in {"BadRequest", "AttributeError"}
    /\ Done(r2) /\ req[r2].exc \in {"ValueError", "KeyError"}
    /\ req[r1].status = 500 /\ req[r2].status = 500

\* C8: when GEMINI_API_KEY is absent from the environment (or empty), the
\* module fails before the Flask app is created, before the provider client
\* is constructed and before a listener is bound, and no request is served;
\* whatever is served is served by a client holding a credential.
C8_NoStartWithoutKey ==
  /\ envKey \in {JNull, JStr(<<>>)} =>
       /\ ~app /\ ~llm.constructed /\ ~listening
       /\ boot \in {"import", "check", "failed"}
       /\ \A r \in Requests : req[r].pc = "Idle"
  /\ \A r \in Requests :
       req[r].pc # "Idle" => llm.constructed /\ llm.key \notin {JNull, JStr(<<>>)}

\* The key was absent and module execution has stopped at the raise.
C8_Witness == envKey = JNull /\ boot = "failed"

\* C10: a request ends in Responded (200, after the output check), in
\* RejectedInput (only from Received), in TransportFailed (only from
\* Invoked) or in OutputInvalid (only from the output check), and the
\* provider is invoked at most once per request.
C10_StateMachine ==
  \A r \in Requests :
    Done(r) =>
      /\ req[r].exitFrom \in {"Received", "Invoked", "ValidatedOutput"}
      /\ req[r].status = 400 => req[r].exitFrom = "Received"
      /\ req[r].status = 200 => req[r].exitFrom = "ValidatedOutput"
      /\ req[r].calls <= 1

====
